---------------------------- MODULE Spec2Model ----------------------------
(***************************************************************************)
(* DT5560 acquisition monitor (daqMonitor.py / monitor.py): the per-event  *)
(* FIFO accumulation loop, the 0xFFFFFFFF header search, the frame window  *)
(* and decode_event, as one sequential program with a program counter.     *)
(*                                                                         *)
(* Frame layout.  The scripts fix CHANNELS = 32, WAVE_LEN = 40,            *)
(* EVENT_HEADER_WORDS = 16 and WORDS_PER_SAMPLE = 16 (656-word frames).    *)
(* The model keeps every formula of the scripts over these names and runs  *)
(* them on a small layout: WORDS_PER_SAMPLE, WAVE_LEN and                  *)
(* EVENT_HEADER_WORDS are bounds of the model, CHANNELS is twice           *)
(* WORDS_PER_SAMPLE as in the scripts ("= 32 canales / 2").                *)
(*                                                                         *)
(* 32-bit words.  TLC's integers are 32-bit signed, so a uint32 word is    *)
(* held as the signed integer with the same bit pattern (u - 2^32 when     *)
(* u >= 2^31).  With TLA+'s floored \div and non-negative %, the masks and *)
(* shifts of the scripts are computed on that pattern exactly.             *)
(***************************************************************************)
EXTENDS Integers, Sequences, FiniteSets, TLC

\* ----------------------------------------------------------------- bounds
WORDS_PER_SAMPLE == 2
WAVE_LEN == 2
EVENT_HEADER_WORDS == 2
\* N_EVENTS ranges over 0..MaxEvents
MaxEvents == 2
\* zero-word FIFO reads allowed within one event's accumulation
MaxEmptyReads == 1

\* --------------------------------------------------------------- constants
CHANNELS == 2 * WORDS_PER_SAMPLE
EVENT_WORDS == EVENT_HEADER_WORDS + WORDS_PER_SAMPLE * WAVE_LEN
FIFO_CHUNK == EVENT_WORDS * 2

\* ------------------------------------------------------------ 32-bit words
\* The uint32 with high half hi and low half lo (each in 0..65535), as the
\* signed integer with the same 32 bits:  lo | (hi << 16).
Word(hi, lo) == (IF hi >= 32768 THEN hi - 65536 ELSE hi) * 65536 + lo

\* word & 0xFFFF
Low16(word) == word % 65536
\* (word >> 16) & 0xFFFF
High16(word) == (word \div 65536) % 65536

\* 0xFFFFFFFF
HEADER_WORD == Word(65535, 65535)

\* ------------------------------------------------------- numpy / list helpers
Min(a, b) == IF a < b THEN a ELSE b
Max(a, b) == IF a > b THEN a ELSE b

\* Faulty variant: the window starts one word late
Slice_Late(data, lo, hi) == SubSeq(data, lo + 2, Min(hi, Len(data)))

\* Faulty variant: the window is one word too long
Slice_Long(data, lo, hi) == SubSeq(data, lo + 1, Min(hi + 1, Len(data)))

\* Faulty variant: the window is one word too short
Slice_Short(data, lo, hi) == SubSeq(data, lo + 1, Min(hi, Len(data)) - 1)

\* data[lo:hi] for 0 <= lo, hi: Python slicing clips at the end of data
Slice(data, lo, hi) == SubSeq(data, lo + 1, Min(hi, Len(data)))

\* Faulty variant: the comparison looks at the high half only
WhereHeader_HighHalf(data) ==
    SelectSeq([k \in 1..Len(data) |-> k - 1], LAMBDA i : High16(data[i + 1]) = 65535)

\* Faulty variant: the positions come in decreasing order, so hdr[0] is the last one
RECURSIVE Reverse(_)
Reverse(q) == IF q = <<>> THEN <<>> ELSE Append(Reverse(Tail(q)), Head(q))
WhereHeader_LastFirst(data) ==
    Reverse(SelectSeq([k \in 1..Len(data) |-> k - 1],
                      LAMBDA i : data[i + 1] = HEADER_WORD))

\* np.where(data == 0xFFFFFFFF)[0]: the 0-based positions holding the header
\* word, in increasing order
WhereHeader(data) ==
    SelectSeq([k \in 1..Len(data) |-> k - 1], LAMBDA i : data[i + 1] = HEADER_WORD)

\* Faulty variant: a frame one word short passes the completeness test
NotCompleted_OneShort(idx, data) == idx + EVENT_WORDS > Len(data) + 1

\* idx + EVENT_WORDS > len(data)
NotCompleted(idx, data) == idx + EVENT_WORDS > Len(data)

\* Faulty variant: the loop also runs with exactly EVENT_WORDS words
NeedMoreWords_Inclusive(raw) == Len(raw) <= EVENT_WORDS

\* while len(raw_words) < EVENT_WORDS
NeedMoreWords(raw) == Len(raw) < EVENT_WORDS

\* Faulty variant: the whole buffer is appended, not its first valid words
ExtendValid_WholeBuf(raw, buf, valid) == raw \o buf

\* arr = np.frombuffer(buf, count=valid); raw_words.extend(arr.tolist())
ExtendValid(raw, buf, valid) == raw \o SubSeq(buf, 1, valid)

\* Faulty variant: the loop runs one iteration too many
HasNextEvent_Inclusive(i, n) == i + 1 <= n

\* for iev in range(N_EVENTS): is there an iteration after iteration i
HasNextEvent(i, n) == i + 1 < n

\* REFRESH_EVERY = max(1, N_EVENTS // 10)
REFRESH_EVERY(n) == Max(1, n \div 10)

\* ------------------------------------------------------------- decode_event
\* np.zeros((CHANNELS, WAVE_LEN), dtype=np.uint16)
ZeroWaves == [ch \in 0..(CHANNELS - 1) |-> [s \in 0..(WAVE_LEN - 1) |-> 0]]

\* One pass of "for pair in range(WORDS_PER_SAMPLE)" for time sample i, from
\* pair on; st = [waves, idx].  The break leaves the pass with st unchanged.
\* (s ranges over the one-element set {st}: st is evaluated once per pass.)
RECURSIVE DecodePairs(_, _, _, _)
DecodePairs(wave_data, st, i, pair) ==
    IF pair >= WORDS_PER_SAMPLE THEN st
    ELSE CHOOSE r \in
           { IF s.idx >= Len(wave_data) THEN s
             ELSE LET word == wave_data[s.idx + 1]
                      chA  == pair * 2
                      chB  == pair * 2 + 1
                      w1   == IF chA < CHANNELS
                              THEN [s.waves EXCEPT ![chA][i] = Low16(word)]
                              ELSE s.waves
                      w2   == IF chB < CHANNELS
                              THEN [w1 EXCEPT ![chB][i] = High16(word)]
                              ELSE w1
                  IN  DecodePairs(wave_data, [waves |-> w2, idx |-> s.idx + 1],
                                  i, pair + 1)
             : s \in {st} } : TRUE

\* "for i in range(WAVE_LEN)" from i on
RECURSIVE DecodeSamples(_, _, _)
DecodeSamples(wave_data, st, i) ==
    IF i >= WAVE_LEN THEN st
    ELSE DecodeSamples(wave_data, DecodePairs(wave_data, st, i, 0), i + 1)

\* Faulty variant: the two halves of a word go to the wrong channels
decode_event_Swapped(event) ==
    LET wave_data == Slice(event, EVENT_HEADER_WORDS, Len(event))
        w == DecodeSamples(wave_data, [waves |-> ZeroWaves, idx |-> 0], 0).waves
    IN  [ch \in 0..(CHANNELS - 1) |->
            IF ch % 2 = 0 /\ ch + 1 < CHANNELS THEN w[ch + 1]
            ELSE IF ch % 2 = 1 THEN w[ch - 1] ELSE w[ch]]

decode_event(event) ==
    LET wave_data == Slice(event, EVENT_HEADER_WORDS, Len(event))
    IN  DecodeSamples(wave_data, [waves |-> ZeroWaves, idx |-> 0], 0).waves

\* ------------------------------------------------------ the device transport
\* What the FIFO holds when a read is served: off junk words, then frames
\* back to back (header word, reserved words, payload).  k is 0-based.
\* Junk shares its high half with the header word but is never equal to it
JunkWord(k) == Word(65535, 4096 + k)
ReservedWord == Word(57005, 48879)
PayloadWord(q) ==
    IF q % 2 = 0 THEN Word(2 * q + 2, 2 * q + 1)
    ELSE Word(65535 - q, 32768 + q)
StreamWord(off, k) ==
    IF k < off THEN JunkWord(k)
    ELSE LET j == (k - off) % EVENT_WORDS
         IN  IF j = 0 THEN HEADER_WORD
             ELSE IF j < EVENT_HEADER_WORDS THEN ReservedWord
             ELSE PayloadWord(j - EVENT_HEADER_WORDS)

\* Positions of the first header word in what the FIFO holds; FIFO_CHUNK: none
Offsets == {0, 1, EVENT_WORDS - 2, EVENT_WORDS + 1, FIFO_CHUNK}
\* Word counts one read delivers (never more than the FIFO_CHUNK requested)
ValidCounts == {0, EVENT_WORDS - 1, EVENT_WORDS, FIFO_CHUNK}
\* NI_ReadFifo's status: 0 is success
ErrCodes == {0, 1}

\* buf = (c_uint32 * FIFO_CHUNK)() is zero-filled; the read writes the first
\* valid words of it
FilledBuf(off, valid) ==
    [k \in 1..FIFO_CHUNK |-> IF k <= valid THEN StreamWord(off, k - 1) ELSE 0]

\* The possible outcomes (err, valid, buf) of one ReadFifo call: a read that
\* succeeds delivers any of the counts from any of the streams; a read that
\* fails delivers nothing or a full chunk
ReadFifo ==
    {[err |-> 0, valid |-> v, buf |-> FilledBuf(IF v = 0 THEN 0 ELSE o, v)] :
        v \in ValidCounts, o \in Offsets}
    \cup
    {[err |-> e, valid |-> v, buf |-> FilledBuf(0, v)] :
        e \in ErrCodes \ {0}, v \in {0, FIFO_CHUNK}}

\* Transport calls, as <<function, value or count, address>>
WriteReg(value, addr) == <<"WriteReg", value, addr>>
ReadFifoCall == <<"ReadFifo", FIFO_CHUNK, "SCI_REG_Digitizer_0_FIFOADDRESS">>
ConnectCall == <<"ConnectDevice", 8888, "172.25.26.120">>
CloseCall == <<"CloseDevice", 0, "handle">>

\* ------------------------------------------------------------------- state
VARIABLES
    pc,         \* position in main()
    n_events,   \* N_EVENTS of this run
    iev,        \* loop variable; -1 before the first iteration
    raw_words,  \* the event's accumulated words
    event,      \* the last extracted frame window
    wave_array, \* the array bound to the tree's "waveforms" branch
    calls,      \* the transport calls, in order, since the current iteration
                \* began (before the first iteration: since the program began)
    reads,      \* the (err, valid, buf) of every ReadFifo of the current event
    out,        \* console lines, as <<message, iev>>
    decoded,    \* the iev of every decode_event call
    fills,      \* the iev of every tree.Fill() call
    script,     \* the script that runs: "daqMonitor" or "monitor"
    layout      \* the script's frame-layout constants

vars == <<pc, n_events, iev, raw_words, event, wave_array, calls, reads, out,
          decoded, fills, script, layout>>

\* CHANNELS, WAVE_LEN, EVENT_HEADER_WORDS, WORDS_PER_SAMPLE as the scripts set them
Layout ==
    [CHANNELS |-> CHANNELS, WAVE_LEN |-> WAVE_LEN,
     EVENT_HEADER_WORDS |-> EVENT_HEADER_WORDS,
     WORDS_PER_SAMPLE |-> WORDS_PER_SAMPLE]

\* Config digitizer
ConfigWrites ==
    << WriteReg(7900, "SCI_REG_threshold"),
       WriteReg(10, "SCI_REG_Delay"),
       WriteReg(layout.WAVE_LEN, "SCI_REG_Digitizer_0_ACQ_LEN") >>

\* Faulty variant: reset comes before stop
start_digitizer_ResetFirst ==
    << WriteReg(0 + layout.CHANNELS * 256, "SCI_REG_Digitizer_0_CONFIG"),
       WriteReg(2 + layout.CHANNELS * 256, "SCI_REG_Digitizer_0_CONFIG"),
       WriteReg(1 + layout.CHANNELS * 256, "SCI_REG_Digitizer_0_CONFIG") >>

\* start_digitizer(): stop, reset, start;  v + (CH << 8)
start_digitizer ==
    << WriteReg(2 + layout.CHANNELS * 256, "SCI_REG_Digitizer_0_CONFIG"),
       WriteReg(0 + layout.CHANNELS * 256, "SCI_REG_Digitizer_0_CONFIG"),
       WriteReg(1 + layout.CHANNELS * 256, "SCI_REG_Digitizer_0_CONFIG") >>

Init ==
    /\ pc = "connect"
    /\ n_events \in 0..MaxEvents
    /\ iev = -1
    /\ raw_words = <<>>
    /\ event = <<>>
    /\ wave_array = ZeroWaves
    /\ calls = <<>>
    /\ reads = <<>>
    /\ out = <<>>
    /\ decoded = <<>>
    /\ fills = <<>>
    /\ script = "daqMonitor"
    /\ layout = Layout

\* err, handle = ConnectDevice(IP_BOARD); if err != 0: return
ConnectDevice ==
    /\ pc = "connect"
    /\ calls' = Append(calls, ConnectCall)
    /\ \E err \in ErrCodes :
          IF err # 0
          THEN /\ out' = Append(out, <<"ERROR conection", -1>>)
               /\ pc' = "returned"
          ELSE /\ out' = Append(out, <<"successful Conected", -1>>)
               /\ pc' = "config"
    /\ UNCHANGED <<script, layout, n_events, iev, raw_words, event, wave_array,
                   reads, decoded, fills>>

\* The three configuration writes; "Acq started"
ConfigDigitizer ==
    /\ pc = "config"
    /\ calls' = calls \o ConfigWrites
    /\ out' = Append(out, <<"Acq started", -1>>)
    /\ pc' = "loop"
    /\ UNCHANGED <<script, layout, n_events, iev, raw_words, event, wave_array,
                   reads, decoded, fills>>

\* Faulty variant: raw_words = [] is done once, before the loop
LoopHead_KeepsWords ==
    /\ pc = "loop"
    /\ HasNextEvent(iev, n_events)
    /\ iev' = iev + 1
    /\ out' = IF (iev + 1) % REFRESH_EVERY(n_events) = 0
              THEN Append(out, <<"progress", iev + 1>>)
              ELSE out
    /\ calls' = start_digitizer
    /\ reads' = <<>>
    /\ pc' = "accumulate"
    /\ UNCHANGED <<script, layout, n_events, raw_words, event, wave_array, decoded, fills>>

\* Head of one iteration: the progress line, start_digitizer(), raw_words = []
LoopHead ==
    /\ pc = "loop"
    /\ HasNextEvent(iev, n_events)
    /\ iev' = iev + 1
    /\ out' = IF (iev + 1) % REFRESH_EVERY(n_events) = 0
              THEN Append(out, <<"progress", iev + 1>>)
              ELSE out
    /\ calls' = start_digitizer
    /\ raw_words' = <<>>
    /\ reads' = <<>>
    /\ pc' = "accumulate"
    /\ UNCHANGED <<script, layout, n_events, event, wave_array, decoded, fills>>

EmptyReads == Cardinality({k \in 1..Len(reads) : reads[k].valid = 0})

\* Faulty variant: a zero-word read ends the program instead of being retried
AccumulateWith_EmptyFatal(r) ==
    /\ pc = "accumulate"
    /\ NeedMoreWords(raw_words)
    /\ calls' = Append(calls, ReadFifoCall)
    /\ reads' = Append(reads, r)
    /\ raw_words' = IF r.valid = 0
                    THEN raw_words
                    ELSE ExtendValid(raw_words, r.buf, r.valid)
    /\ pc' = IF r.valid = 0 THEN "returned" ELSE pc
    /\ UNCHANGED <<script, layout, n_events, iev, event, wave_array, out, decoded, fills>>

\* Faulty variant: a zero-word read abandons the event (continue of the for loop)
AccumulateWith_EmptySkipsEvent(r) ==
    /\ pc = "accumulate"
    /\ NeedMoreWords(raw_words)
    /\ r.valid = 0 => EmptyReads < MaxEmptyReads
    /\ calls' = Append(calls, ReadFifoCall)
    /\ reads' = Append(reads, r)
    /\ raw_words' = IF r.valid = 0
                    THEN raw_words
                    ELSE ExtendValid(raw_words, r.buf, r.valid)
    /\ pc' = IF r.valid = 0 THEN "loop" ELSE pc
    /\ UNCHANGED <<script, layout, n_events, iev, event, wave_array, out, decoded, fills>>

\* One pass of the while loop with the ReadFifo outcome r
AccumulateWith(r) ==
    /\ pc = "accumulate"
    /\ NeedMoreWords(raw_words)
    /\ r.valid = 0 => EmptyReads < MaxEmptyReads
    /\ calls' = Append(calls, ReadFifoCall)
    /\ reads' = Append(reads, r)
    /\ raw_words' = IF r.valid = 0
                    THEN raw_words
                    ELSE ExtendValid(raw_words, r.buf, r.valid)
    /\ UNCHANGED <<pc, script, layout, n_events, iev, event, wave_array, out, decoded, fills>>

AccumulateRead == \E r \in ReadFifo : AccumulateWith(r)

\* hdr.size == 0: "Event without header. Ignored."; continue
SkipNoHeader ==
    /\ pc = "accumulate"
    /\ ~NeedMoreWords(raw_words)
    /\ Len(WhereHeader(raw_words)) = 0
    /\ out' = Append(out, <<"Event without header. Ignored.", iev>>)
    /\ pc' = "loop"
    /\ UNCHANGED <<script, layout, n_events, iev, raw_words, event, wave_array,
                   calls, reads, decoded, fills>>

\* Faulty variant: the continue is missing; the short window is decoded and filled
SkipNotCompleted_FallThrough ==
    /\ pc = "accumulate"
    /\ ~NeedMoreWords(raw_words)
    /\ Len(WhereHeader(raw_words)) # 0
    /\ NotCompleted(WhereHeader(raw_words)[1], raw_words)
    /\ out' = Append(out, <<"Event not completed. Ignored.", iev>>)
    /\ event' = Slice(raw_words, WhereHeader(raw_words)[1],
                      WhereHeader(raw_words)[1] + EVENT_WORDS)
    /\ wave_array' = decode_event(event')
    /\ decoded' = Append(decoded, iev)
    /\ fills' = Append(fills, iev)
    /\ pc' = "loop"
    /\ UNCHANGED <<script, layout, n_events, iev, raw_words, calls, reads>>

\* idx + EVENT_WORDS > len(data): "Event not completed. Ignored."; continue
SkipNotCompleted ==
    /\ pc = "accumulate"
    /\ ~NeedMoreWords(raw_words)
    /\ Len(WhereHeader(raw_words)) # 0
    /\ NotCompleted(WhereHeader(raw_words)[1], raw_words)
    /\ out' = Append(out, <<"Event not completed. Ignored.", iev>>)
    /\ pc' = "loop"
    /\ UNCHANGED <<script, layout, n_events, iev, raw_words, event, wave_array,
                   calls, reads, decoded, fills>>

\* event = data[idx: idx + EVENT_WORDS]; decode; copy; tree.Fill(); refresh
DecodeAndFill ==
    /\ pc = "accumulate"
    /\ ~NeedMoreWords(raw_words)
    /\ Len(WhereHeader(raw_words)) # 0
    /\ LET idx == WhereHeader(raw_words)[1]
       IN  /\ ~NotCompleted(idx, raw_words)
           /\ event' = Slice(raw_words, idx, idx + EVENT_WORDS)
    /\ wave_array' = decode_event(event')
    /\ decoded' = Append(decoded, iev)
    /\ fills' = Append(fills, iev)
    /\ out' = IF iev > 0 /\ iev % REFRESH_EVERY(n_events) = 0
              THEN Append(out, <<"[REFRESH]", iev>>)
              ELSE out
    /\ pc' = "loop"
    /\ UNCHANGED <<script, layout, n_events, iev, raw_words, calls, reads>>

\* After the loop: fout.Write(); fout.Close(); CloseDevice(handle)
Finish ==
    /\ pc = "loop"
    /\ ~HasNextEvent(iev, n_events)
    /\ out' = out \o << <<"writing ROOT file", -1>>, <<"conection closed.", -1>> >>
    /\ calls' = Append(calls, CloseCall)
    /\ pc' = "done"
    /\ UNCHANGED <<script, layout, n_events, iev, raw_words, event, wave_array,
                   reads, decoded, fills>>

Next ==
    \/ ConnectDevice
    \/ ConfigDigitizer
    \/ LoopHead
    \/ AccumulateRead
    \/ SkipNoHeader
    \/ SkipNotCompleted
    \/ DecodeAndFill
    \/ Finish

Spec == Init /\ [][Next]_vars

\* The same program on a transport whose reads succeed and alternate between
\* zero-word and full-chunk results (either may come first in an event).
AltReadFifo ==
    {r \in ReadFifo :
        /\ r.err = 0
        /\ r.valid \in {0, FIFO_CHUNK}
        /\ reads # <<>> => (r.valid = 0) # (reads[Len(reads)].valid = 0)}

AccumulateAlternating == \E r \in AltReadFifo : AccumulateWith(r)

NextAlt ==
    \/ ConnectDevice
    \/ ConfigDigitizer
    \/ LoopHead
    \/ AccumulateAlternating
    \/ SkipNoHeader
    \/ SkipNotCompleted
    \/ DecodeAndFill
    \/ Finish

\* main runs on one thread and every call it makes returns (the FIFO read
\* within TIMEOUT_MS, the sleep after 0.5 ms): it always takes its next step.
SpecAlt == Init /\ [][NextAlt]_vars /\ WF_vars(NextAlt)

\* ---------------------------------------------- any layout constants
\* Values the four layout constants at the top of the script may be given
Layouts ==
    [CHANNELS : 1..(2 * WORDS_PER_SAMPLE), WAVE_LEN : 0..WAVE_LEN,
     EVENT_HEADER_WORDS : {EVENT_HEADER_WORDS},
     WORDS_PER_SAMPLE : 1..WORDS_PER_SAMPLE]

\* The state after import and the first lines of main, for any layout:
\* wave_array = np.zeros((CHANNELS, WAVE_LEN))
InitLayout ==
    /\ pc = "connect"
    /\ n_events \in 0..MaxEvents
    /\ layout \in Layouts
    /\ iev = -1
    /\ raw_words = <<>>
    /\ event = <<>>
    /\ wave_array = [ch \in 0..(layout.CHANNELS - 1) |->
                         [sm \in 0..(layout.WAVE_LEN - 1) |-> 0]]
    /\ calls = <<>>
    /\ reads = <<>>
    /\ out = <<>>
    /\ decoded = <<>>
    /\ fills = <<>>
    /\ script = "daqMonitor"

\* main from its first line to the first start_digitizer() (or, with no
\* event to take, to its end): all that a run does before it reads the FIFO
NextLayout ==
    \/ ConnectDevice
    \/ ConfigDigitizer
    \/ LoopHead
    \/ Finish

SpecLayout == InitLayout /\ [][NextLayout]_vars

\* ------------------------------------------------------------ monitor.py
\* Faulty variant: monitor.py writes another delay as well
ConfigWrites_monitor_DelayToo ==
    << WriteReg(7800, "SCI_REG_threshold"),
       WriteReg(20, "SCI_REG_Delay"),
       WriteReg(layout.WAVE_LEN, "SCI_REG_Digitizer_0_ACQ_LEN") >>

\* monitor.py: Config digitizer
ConfigWrites_monitor ==
    << WriteReg(7800, "SCI_REG_threshold"),
       WriteReg(10, "SCI_REG_Delay"),
       WriteReg(layout.WAVE_LEN, "SCI_REG_Digitizer_0_ACQ_LEN") >>

\* monitor.py: err, handle = ConnectDevice(IP_BOARD); if err != 0: return
ConnectDevice_monitor ==
    /\ pc = "connect"
    /\ calls' = Append(calls, ConnectCall)
    /\ \E err \in ErrCodes :
          IF err # 0
          THEN /\ out' = Append(out, <<"ERROR de conexion", -1>>)
               /\ pc' = "returned"
          ELSE /\ out' = Append(out, <<"Conectado correctamente", -1>>)
               /\ pc' = "config"
    /\ UNCHANGED <<script, layout, n_events, iev, raw_words, event, wave_array,
                   reads, decoded, fills>>

\* monitor.py: the three configuration writes; "starting adquisition"
ConfigDigitizer_monitor ==
    /\ pc = "config"
    /\ calls' = calls \o ConfigWrites_monitor
    /\ out' = Append(out, <<"starting adquisition", -1>>)
    /\ pc' = "loop"
    /\ UNCHANGED <<script, layout, n_events, iev, raw_words, event, wave_array,
                   reads, decoded, fills>>

\* monitor.py: hdr.size == 0: "event corrupted"; continue
SkipNoHeader_monitor ==
    /\ pc = "accumulate"
    /\ ~NeedMoreWords(raw_words)
    /\ Len(WhereHeader(raw_words)) = 0
    /\ out' = Append(out, <<"event corrupted", iev>>)
    /\ pc' = "loop"
    /\ UNCHANGED <<script, layout, n_events, iev, raw_words, event, wave_array,
                   calls, reads, decoded, fills>>

\* monitor.py: idx + EVENT_WORDS > len(data): "event corrupted."; continue
SkipNotCompleted_monitor ==
    /\ pc = "accumulate"
    /\ ~NeedMoreWords(raw_words)
    /\ Len(WhereHeader(raw_words)) # 0
    /\ NotCompleted(WhereHeader(raw_words)[1], raw_words)
    /\ out' = Append(out, <<"event corrupted.", iev>>)
    /\ pc' = "loop"
    /\ UNCHANGED <<script, layout, n_events, iev, raw_words, event, wave_array,
                   calls, reads, decoded, fills>>

\* monitor.py: event = data[idx: idx + EVENT_WORDS]; decode; copy; the
\* histograms and the time stamp; tree.Fill(); refresh
DecodeAndFill_monitor ==
    /\ pc = "accumulate"
    /\ ~NeedMoreWords(raw_words)
    /\ Len(WhereHeader(raw_words)) # 0
    /\ LET idx == WhereHeader(raw_words)[1]
       IN  /\ ~NotCompleted(idx, raw_words)
           /\ event' = Slice(raw_words, idx, idx + EVENT_WORDS)
    /\ wave_array' = decode_event(event')
    /\ decoded' = Append(decoded, iev)
    /\ fills' = Append(fills, iev)
    /\ out' = IF iev > 0 /\ iev % REFRESH_EVERY(n_events) = 0
              THEN Append(out, <<"[REFRESH] Evento", iev>>)
              ELSE out
    /\ pc' = "loop"
    /\ UNCHANGED <<script, layout, n_events, iev, raw_words, calls, reads>>

\* monitor.py, after the loop: the Write() calls; fout.Close(); CloseDevice(handle)
Finish_monitor ==
    /\ pc = "loop"
    /\ ~HasNextEvent(iev, n_events)
    /\ out' = out \o << <<"saving ROOTfile...", -1>>, <<"Close", -1>> >>
    /\ calls' = Append(calls, CloseCall)
    /\ pc' = "done"
    /\ UNCHANGED <<script, layout, n_events, iev, raw_words, event, wave_array,
                   reads, decoded, fills>>

\* main of monitor.py; the head of the iteration and the accumulation loop
\* are the text of daqMonitor.py
NextMonitor ==
    \/ ConnectDevice_monitor
    \/ ConfigDigitizer_monitor
    \/ LoopHead
    \/ AccumulateRead
    \/ SkipNoHeader_monitor
    \/ SkipNotCompleted_monitor
    \/ DecodeAndFill_monitor
    \/ Finish_monitor

\* Either script is started
InitBoth ==
    /\ pc = "connect"
    /\ n_events \in 0..MaxEvents
    /\ iev = -1
    /\ raw_words = <<>>
    /\ event = <<>>
    /\ wave_array = ZeroWaves
    /\ calls = <<>>
    /\ reads = <<>>
    /\ out = <<>>
    /\ decoded = <<>>
    /\ fills = <<>>
    /\ script \in {"daqMonitor", "monitor"}
    /\ layout = Layout

NextBoth ==
    \/ script = "daqMonitor" /\ Next
    \/ script = "monitor" /\ NextMonitor

SpecBoth == InitBoth /\ [][NextBoth]_vars

\* ------------------------------------------------------------- properties
\* The iteration of event iev has just ended (by a continue or after the
\* fill); raw_words still holds the buffer that was synchronized.
JustProcessed == pc = "loop" /\ iev >= 0

Last(s) == s[Len(s)]
InSeq(x, s) == \E k \in 1..Len(s) : s[k] = x

NoHeaderIn(buf) == \A k \in 1..Len(buf) : buf[k] # HEADER_WORD
\* The 0-based position of the first header word of buf (buf has one)
FirstHeader(buf) ==
    CHOOSE m \in 0..(Len(buf) - 1) :
        /\ buf[m + 1] = HEADER_WORD
        /\ \A j \in 0..(m - 1) : buf[j + 1] # HEADER_WORD
\* The buffer holds a whole frame from its first header word on
FrameIn(buf) == ~NoHeaderIn(buf) /\ FirstHeader(buf) + EVENT_WORDS <= Len(buf)
\* The words buf[a .. a+n-1], 0-based
Window(buf, a, n) == [k \in 1..n |-> buf[a + k]]
Filled == JustProcessed /\ fills # <<>> /\ Last(fills) = iev

\* C1: decode_event of a frame of exactly EVENT_WORDS words recovers every
\* packed sample: for every sample group g and word p of the group, with w
\* the frame word at offset EVENT_HEADER_WORDS + g*WORDS_PER_SAMPLE + p, cell
\* [2p][g] is the low half of w and cell [2p+1][g] its high half (re-packing
\* the two cells gives w back); the header words do not influence the matrix.
C1_DecodeRecoversSamples ==
    decoded # <<>> =>
        /\ Len(event) = EVENT_WORDS
        /\ wave_array = decode_event(event)
        /\ \A g \in 0..(WAVE_LEN - 1) : \A p \in 0..(WORDS_PER_SAMPLE - 1) :
              LET w == event[EVENT_HEADER_WORDS + g * WORDS_PER_SAMPLE + p + 1]
              IN  /\ wave_array[2 * p][g] \in 0..65535
                  /\ wave_array[2 * p + 1][g] \in 0..65535
                  /\ Word(wave_array[2 * p + 1][g], wave_array[2 * p][g]) = w
        /\ \A h \in {0, HEADER_WORD, ReservedWord, JunkWord(0)} :
              decode_event([k \in 1..EVENT_WORDS |->
                               IF k <= EVENT_HEADER_WORDS THEN h ELSE event[k]])
                 = wave_array

\* C1 witness: a frame was decoded whose payload has words with the top bit
\* of either half set, and whose header holds a second header word
C1_Witness ==
    /\ Filled
    /\ \E g \in 0..(WAVE_LEN - 1) : \E ch \in 0..(CHANNELS - 1) :
          wave_array[ch][g] >= 32768
    /\ \E k \in 2..EVENT_HEADER_WORDS : event[k] = HEADER_WORD

\* The valid words of a sequence of reads, in delivery order
RECURSIVE ConcatValid(_)
ConcatValid(rs) ==
    IF rs = <<>> THEN <<>>
    ELSE LET r == rs[Len(rs)]
         IN  ConcatValid(SubSeq(rs, 1, Len(rs) - 1)) \o [k \in 1..r.valid |-> r.buf[k]]

\* C2 (as claimed): a FIFO read with a non-zero status is the last read of
\* its event's accumulation (no retry) and its words are not in the buffer.
C2_ReadErrorSurfaced ==
    \A k \in 1..Len(reads) :
        reads[k].err # 0 =>
            /\ k = Len(reads)
            /\ raw_words = ConcatValid(SubSeq(reads, 1, k - 1))

\* C3: an accumulated buffer without any header word ends the event with
\* "Event without header": no decode_event call, no tree.Fill for the event.
C3_NoHeaderFound ==
    (JustProcessed /\ NoHeaderIn(raw_words)) =>
        /\ Last(out) = <<"Event without header. Ignored.", iev>>
        /\ ~InSeq(iev, decoded)
        /\ ~InSeq(iev, fills)

C3_Witness ==
    /\ JustProcessed /\ NoHeaderIn(raw_words)
    /\ Len(raw_words) > EVENT_WORDS
    /\ Len(reads) > 1

\* C4: an accumulated buffer whose first header word is at idx with
\* idx + EVENT_WORDS > len ends the event with "Event not completed": no
\* decode_event call and no tree.Fill (no partially filled matrix).
C4_IncompleteFrame ==
    (JustProcessed /\ ~NoHeaderIn(raw_words)
        /\ FirstHeader(raw_words) + EVENT_WORDS > Len(raw_words)) =>
        /\ Last(out) = <<"Event not completed. Ignored.", iev>>
        /\ ~InSeq(iev, decoded)
        /\ ~InSeq(iev, fills)

\* C4 witness: the frame is short by exactly one word
C4_Witness ==
    /\ JustProcessed /\ ~NoHeaderIn(raw_words)
    /\ FirstHeader(raw_words) + EVENT_WORDS = Len(raw_words) + 1
    /\ Last(out) = <<"Event not completed. Ignored.", iev>>

\* C5: for every split of the accumulated buffer into J + F + T with J free
\* of header words and F a frame (EVENT_WORDS words, the first the header
\* word), the event is decoded and filled and the matrix is decode_event(F).
C5_SentinelLocationInvariance ==
    JustProcessed =>
        \A j \in 0..Len(raw_words) :
            LET J == SubSeq(raw_words, 1, j)
            IN  (/\ NoHeaderIn(J)
                 /\ j + EVENT_WORDS <= Len(raw_words)
                 /\ raw_words[j + 1] = HEADER_WORD) =>
                    /\ Filled
                    /\ wave_array = decode_event(Window(raw_words, j, EVENT_WORDS))

\* C5 witness: junk before the frame and words after it
C5_Witness ==
    /\ Filled
    /\ FirstHeader(raw_words) > 1
    /\ FirstHeader(raw_words) + EVENT_WORDS < Len(raw_words)


\* C6: on a transport whose reads alternate between zero-word and full-chunk
\* results, every accumulation that still needs words reaches, after at most
\* two reads, the end of the while loop with at least EVENT_WORDS words; the
\* zero-word reads never end the program.
C6_AccumulatorLiveness ==
    /\ [](pc = "accumulate" => Len(reads) <= 2)
    /\ [](pc # "returned" \/ iev = -1)
    /\ (pc = "accumulate" /\ NeedMoreWords(raw_words))
          ~> (pc = "accumulate" /\ Len(raw_words) >= EVENT_WORDS)

\* C6 witness: the loop ended after a zero-word read and a full chunk
C6_Witness ==
    /\ pc = "accumulate"
    /\ Len(reads) = 2
    /\ reads[1].valid = 0
    /\ Len(raw_words) >= EVENT_WORDS

\* The events whose iteration has ended
ProcessedEvents == IF pc \in {"loop", "done"} THEN 0..iev ELSE 0..(iev - 1)
SkipLine(e) ==
    \/ InSeq(<<"Event without header. Ignored.", e>>, out)
    \/ InSeq(<<"Event not completed. Ignored.", e>>, out)

\* C7: a synchronization failure is not fatal: an event whose buffer holds
\* no whole frame is skipped without a decode, all N_EVENTS iterations are
\* run, and tree.Fill is called once for each event that synchronized and
\* never for one that did not, in increasing event order.
C7_SyncFailureNotFatal ==
    /\ \A k \in 1..(Len(fills) - 1) : fills[k] < fills[k + 1]
    /\ \A k \in 1..Len(fills) : fills[k] \in ProcessedEvents
    /\ \A e \in ProcessedEvents :
          /\ SkipLine(e) # InSeq(e, fills)
          /\ SkipLine(e) => ~InSeq(e, decoded)
    /\ JustProcessed => (FrameIn(raw_words) <=> InSeq(iev, fills))
    /\ pc = "done" => iev = n_events - 1
    /\ pc = "returned" => iev = -1

\* C7 witness: event 0 failed to synchronize, event 1 was filled, the run ended
C7_Witness ==
    /\ pc = "done"
    /\ n_events = 2
    /\ SkipLine(0)
    /\ fills = <<1>>

\* C8: with N_EVENTS = 0 nothing is decoded or filled, and the transport
\* sees the connect, the three configuration writes and the close only: no
\* start-sequence write and no FIFO read.
C8_ZeroEvents ==
    n_events = 0 =>
        /\ pc # "accumulate"
        /\ iev = -1
        /\ decoded = <<>> /\ fills = <<>>
        /\ \A k \in 1..Len(calls) :
              /\ calls[k][1] # "ReadFifo"
              /\ calls[k][3] # "SCI_REG_Digitizer_0_CONFIG"
        /\ pc = "done" =>
              /\ Len(calls) = 5
              /\ calls[1][1] = "ConnectDevice"
              /\ \A k \in 2..4 : calls[k][1] = "WriteReg"
              /\ calls[5][1] = "CloseDevice"

C8_Witness == n_events = 0 /\ pc = "done"

\* C9: the extracted frame starts at the smallest offset holding the header
\* word, whatever header-valued words follow; a payload word of the window
\* equal to the header word is decoded as payload (both cells 0xFFFF).
C9_FirstSentinelWins ==
    Filled =>
        /\ event = Window(raw_words, FirstHeader(raw_words), EVENT_WORDS)
        /\ \A g \in 0..(WAVE_LEN - 1) : \A p \in 0..(WORDS_PER_SAMPLE - 1) :
              event[EVENT_HEADER_WORDS + g * WORDS_PER_SAMPLE + p + 1] = HEADER_WORD
                 => /\ wave_array[2 * p][g] = 65535
                    /\ wave_array[2 * p + 1][g] = 65535

\* C9 witness: a header-valued word in the window's payload and another
\* one after the window
C9_Witness ==
    /\ Filled
    /\ \E k \in (EVENT_HEADER_WORDS + 1)..EVENT_WORDS : event[k] = HEADER_WORD
    /\ \E k \in (FirstHeader(raw_words) + EVENT_WORDS + 1)..Len(raw_words) :
          raw_words[k] = HEADER_WORD

\* C10: during an event's accumulation, and when it ends, raw_words is the
\* concatenation in call order of the first valid words of every ReadFifo of
\* the event; the synchronizer works on that whole buffer: the event is
\* filled exactly when the concatenation holds a whole frame, and the frame
\* is the window at the concatenation's first header word.
C10_BufferIsConcatenation ==
    /\ (pc = "accumulate" \/ JustProcessed) => raw_words = ConcatValid(reads)
    /\ JustProcessed =>
          LET b == ConcatValid(reads)
          IN  /\ Len(b) >= EVENT_WORDS
              /\ Filled <=> FrameIn(b)
              /\ Filled => event = Window(b, FirstHeader(b), EVENT_WORDS)

\* C10 witness: a short read, a zero-word read and a full chunk; the frame
\* starts in the first read and ends in the last, words follow it
C10_Witness ==
    /\ Filled
    /\ Len(reads) = 3
    /\ reads[1].valid = EVENT_WORDS - 1
    /\ reads[2].valid = 0
    /\ reads[3].valid = FIFO_CHUNK
    /\ FirstHeader(raw_words) = 1
    /\ Len(raw_words) > EVENT_WORDS + 1

\* The calls of an iteration that has made n FIFO reads
IterationCalls(n) == start_digitizer \o [k \in 1..n |-> ReadFifoCall]

\* C11: no word is carried from one event to the next: raw_words is empty
\* when an event's accumulation begins (no FIFO read of the event made yet),
\* whatever the previous event did, and a filled matrix is the decode of a
\* window of the words this event's own reads delivered.
C11_NoCarryOver ==
    /\ (pc = "accumulate" /\ calls = start_digitizer) => raw_words = <<>>
    /\ pc = "accumulate" =>
          \A k \in 1..Len(raw_words) :
              \E j \in 1..Len(reads) : \E i \in 1..reads[j].valid :
                  raw_words[k] = reads[j].buf[i]
    /\ Filled =>
          \E a \in 0..(Len(ConcatValid(reads)) - EVENT_WORDS) :
              wave_array = decode_event(Window(ConcatValid(reads), a, EVENT_WORDS))

\* C11 witness: event 1 begins empty after event 0 left words behind its
\* window (event 0 was filled from a buffer longer than its frame)
C11_Witness ==
    /\ pc = "accumulate" /\ iev = 1 /\ calls = start_digitizer
    /\ raw_words = <<>>
    /\ fills = <<0>>

\* C12: in every iteration the three writes to the digitizer's configuration
\* register, stop (2), reset (0), start (1), each with CHANNELS << 8, come
\* first and in that order; every later call of the iteration is a FIFO read
\* (the close after the last iteration excepted).
C12_StartBeforeReads ==
    (iev >= 0 /\ pc \in {"accumulate", "loop", "done"}) =>
        /\ Len(calls) >= 3
        /\ calls[1] = <<"WriteReg", 2 + CHANNELS * 256, "SCI_REG_Digitizer_0_CONFIG">>
        /\ calls[2] = <<"WriteReg", 0 + CHANNELS * 256, "SCI_REG_Digitizer_0_CONFIG">>
        /\ calls[3] = <<"WriteReg", 1 + CHANNELS * 256, "SCI_REG_Digitizer_0_CONFIG">>
        /\ \A k \in 4..Len(calls) :
              \/ calls[k][1] = "ReadFifo"
              \/ pc = "done" /\ k = Len(calls) /\ calls[k][1] = "CloseDevice"
        /\ Len(calls) = 3 + Len(reads) + (IF pc = "done" THEN 1 ELSE 0)
        /\ JustProcessed => Len(reads) >= 1

\* C12 witness: the second event, after three FIFO reads
C12_Witness ==
    /\ pc = "accumulate" /\ iev = 1
    /\ Len(reads) = 3
    /\ calls = IterationCalls(3)

\* A console line that belongs to one event
EventLine(line) ==
    line[1] \in {"progress", "[REFRESH]", "Event without header. Ignored.",
                 "Event not completed. Ignored."}

\* C13 (as claimed): when the run has ended, a console line that is not an
\* event's own line carries the number of decoded events.
C13_DecodedCountReported ==
    pc = "done" =>
        \E k \in 1..Len(out) : ~EventLine(out[k]) /\ out[k][2] = Len(decoded)

\* C15: the frame handed to decode_event is a contiguous window of the
\* accumulated buffer: EVENT_WORDS words, the first the header word, starting
\* at a position before which the buffer has no header word.
C15_FrameIsWindow ==
    (JustProcessed /\ InSeq(iev, decoded)) =>
        /\ Len(event) = EVENT_WORDS
        /\ event[1] = HEADER_WORD
        /\ \E idx \in 0..(Len(raw_words) - EVENT_WORDS) :
              /\ \A j \in 1..idx : raw_words[j] # HEADER_WORD
              /\ \A k \in 1..EVENT_WORDS : event[k] = raw_words[idx + k]

\* C15 witness: the window ends exactly at the end of the buffer and starts
\* after junk
C15_Witness ==
    /\ JustProcessed /\ InSeq(iev, decoded)
    /\ FirstHeader(raw_words) > 0
    /\ FirstHeader(raw_words) + EVENT_WORDS = Len(raw_words)

\* C16: a FIFO read that succeeds with zero words leaves raw_words, the
\* event and the console as they were and stays in the accumulation loop
\* with fewer than EVENT_WORDS words; the step that follows is another FIFO
\* read of the same event.
C16_EmptyReadRetried ==
    [][ /\ (/\ Len(reads') = Len(reads) + 1
            /\ reads'[Len(reads')].valid = 0
            /\ reads'[Len(reads')].err = 0)
           => /\ raw_words' = raw_words
              /\ Len(raw_words') < EVENT_WORDS
              /\ pc' = "accumulate"
              /\ iev' = iev
              /\ out' = out
              /\ UNCHANGED <<event, wave_array, decoded, fills>>
        /\ (/\ pc = "accumulate"
            /\ reads # <<>>
            /\ reads[Len(reads)].valid = 0
            /\ reads[Len(reads)].err = 0)
           => /\ calls' = Append(calls, ReadFifoCall)
              /\ Len(reads') = Len(reads) + 1
              /\ iev' = iev
      ]_vars

\* C16 witness: a zero-word read after a short read, retried by a read that
\* delivers words
C16_Witness ==
    /\ pc = "accumulate"
    /\ Len(reads) = 3
    /\ reads[1].valid = EVENT_WORDS - 1
    /\ reads[2].valid = 0 /\ reads[2].err = 0
    /\ reads[3].valid > 0

\* The stream s (first header word at off) is what the read r delivered from
DeliveredFrom(r, off) ==
    \A k \in 1..r.valid : r.buf[k] = StreamWord(off, k - 1)

\* C17: an event whose buffer has its first header word at idx with
\* idx + EVENT_WORDS > len is lost for good: the accumulation had stopped
\* with the read that brought the buffer to EVENT_WORDS words, no further
\* read of the event is made, nothing is decoded or filled.
C17_FrameLost ==
    (JustProcessed /\ ~NoHeaderIn(raw_words)
        /\ FirstHeader(raw_words) + EVENT_WORDS > Len(raw_words)) =>
        /\ Len(ConcatValid(SubSeq(reads, 1, Len(reads) - 1))) < EVENT_WORDS
        /\ calls = IterationCalls(Len(reads))
        /\ ~InSeq(iev, decoded)
        /\ ~InSeq(iev, fills)

\* C17 witness: the FIFO held a whole frame after one junk word; the only
\* read delivered EVENT_WORDS words, all of the frame but its last word, and
\* the event was dropped
C17_Witness ==
    /\ JustProcessed
    /\ Len(reads) = 1
    /\ reads[1].valid = EVENT_WORDS /\ reads[1].err = 0
    /\ DeliveredFrom(reads[1], 1)
    /\ StreamWord(1, 1) = HEADER_WORD
    /\ FirstHeader(raw_words) = 1
    /\ Len(raw_words) = EVENT_WORDS
    /\ ~InSeq(iev, fills)
    /\ Last(out) = <<"Event not completed. Ignored.", iev>>

\* C18: every read of the accumulation requests FIFO_CHUNK = 2 * EVENT_WORDS
\* words, one call per pass, and the buffer handed to the header search has
\* at least EVENT_WORDS and fewer than EVENT_WORDS + FIFO_CHUNK words.
C18_BufferLengthBounds ==
    /\ FIFO_CHUNK = 2 * EVENT_WORDS
    /\ (iev >= 0 /\ pc \in {"accumulate", "loop"}) =>
          /\ Len(calls) = 3 + Len(reads)
          /\ \A k \in 4..Len(calls) :
                calls[k][1] = "ReadFifo" /\ calls[k][2] = 2 * EVENT_WORDS
          /\ \A k \in 1..Len(reads) : reads[k].valid <= FIFO_CHUNK
    /\ JustProcessed =>
          /\ EVENT_WORDS <= Len(raw_words)
          /\ Len(raw_words) < EVENT_WORDS + FIFO_CHUNK
          /\ Len(raw_words) < 3 * EVENT_WORDS

\* C18 witness: the longest buffer, EVENT_WORDS - 1 + FIFO_CHUNK words
C18_Witness ==
    /\ JustProcessed
    /\ Len(raw_words) = EVENT_WORDS - 1 + FIFO_CHUNK

\* C19: decode_event is called with exactly EVENT_WORDS words, its loop
\* consumes every payload word (the short-payload break is never taken) and
\* every cell of the matrix copied to wave_array is the half of its own
\* payload word of this event: channel ch of sample s from word
\* s * WORDS_PER_SAMPLE + ch \div 2, low half for even ch, high half for odd.
C19_EveryCellWritten ==
    decoded # <<>> =>
        LET wave_data == [k \in 1..(Len(event) - EVENT_HEADER_WORDS) |->
                              event[EVENT_HEADER_WORDS + k]]
            st == DecodeSamples(wave_data, [waves |-> ZeroWaves, idx |-> 0], 0)
        IN  /\ Len(event) = EVENT_WORDS
            /\ Len(wave_data) = WAVE_LEN * WORDS_PER_SAMPLE
            /\ st.idx = WAVE_LEN * WORDS_PER_SAMPLE
            /\ DOMAIN wave_array = 0..(CHANNELS - 1)
            /\ \A ch \in 0..(CHANNELS - 1) : \A sm \in 0..(WAVE_LEN - 1) :
                  LET w == wave_data[sm * WORDS_PER_SAMPLE + (ch \div 2) + 1]
                  IN  wave_array[ch][sm] =
                         IF ch % 2 = 0 THEN w % 65536 ELSE (w \div 65536) % 65536

\* C19 witness: a second fill, from a frame that differs from the first
\* event's frame
C19_Witness ==
    /\ Filled
    /\ fills = <<0, 1>>
    /\ \E ch \in 0..(CHANNELS - 1) : \E sm \in 0..(WAVE_LEN - 1) :
          wave_array[ch][sm] = 65535

\* A layout the frame format admits: an even number of channels, two to a
\* word, and at least one sample
ValidLayout(l) ==
    /\ l.CHANNELS % 2 = 0
    /\ l.WAVE_LEN > 0
    /\ 2 * l.WORDS_PER_SAMPLE = l.CHANNELS

\* C14 (as claimed): with an invalid layout the run stops before acquisition:
\* no write to the digitizer's configuration register, no FIFO read, and the
\* loop is not entered.
C14_InvalidLayoutRejected ==
    ~ValidLayout(layout) =>
        /\ pc # "accumulate"
        /\ \A k \in 1..Len(calls) :
              /\ calls[k][1] # "ReadFifo"
              /\ calls[k][3] # "SCI_REG_Digitizer_0_CONFIG"

\* What both scripts do in and after the loop, as a function of the FIFO
\* read results alone: the calls of the iteration, the buffer, whether the
\* event is skipped, the frame and the matrix.
SameLoopBehaviour ==
    /\ (iev >= 0 /\ pc \in {"accumulate", "loop"}) =>
          /\ calls = IterationCalls(Len(reads))
          /\ raw_words = ConcatValid(reads)
          /\ (pc = "accumulate" /\ reads # <<>>) =>
                Len(ConcatValid(SubSeq(reads, 1, Len(reads) - 1))) < EVENT_WORDS
    /\ pc = "done" =>
          calls[Len(calls)] = CloseCall
    /\ JustProcessed =>
          /\ Len(raw_words) >= EVENT_WORDS
          /\ Filled <=> FrameIn(raw_words)
          /\ InSeq(iev, decoded) <=> FrameIn(raw_words)
          /\ Filled =>
                /\ event = Window(raw_words, FirstHeader(raw_words), EVENT_WORDS)
                /\ wave_array = decode_event(event)
    /\ fills = decoded
    /\ \A k \in 1..Len(fills) : fills[k] <= iev
    /\ \A k \in 1..(Len(fills) - 1) : fills[k] < fills[k + 1]

\* The setup calls of a script whose threshold write carries the value thr
SetupCalls(thr) ==
    << ConnectCall,
       <<"WriteReg", thr, "SCI_REG_threshold">>,
       <<"WriteReg", 10, "SCI_REG_Delay">>,
       <<"WriteReg", WAVE_LEN, "SCI_REG_Digitizer_0_ACQ_LEN">> >>

\* C20 (as claimed): whichever script runs, the register writes, the FIFO
\* reads, the skipped events and the matrices are the same.
C20_SameCallsAndMatrices ==
    /\ SameLoopBehaviour
    /\ (pc = "loop" /\ iev = -1) => calls = SetupCalls(7900)

\* C20 (amended): the scripts differ in the value written to the threshold
\* register before the loop, 7900 in daqMonitor.py and 7800 in monitor.py;
\* every other register write, the FIFO reads, the skipped events and the
\* matrices are the same.
C20_SameButThreshold ==
    /\ SameLoopBehaviour
    /\ (pc = "loop" /\ iev = -1) =>
          calls = SetupCalls(IF script = "daqMonitor" THEN 7900 ELSE 7800)

\* C20 witness: monitor.py has skipped event 0 and filled event 1
C20_Witness ==
    /\ script = "monitor"
    /\ Filled
    /\ iev = 1
    /\ fills = <<1>>
    /\ Len(reads) >= 2

=============================================================================
